---- MODULE Spec2Model ----
(***************************************************************************)
(* Model of Scripts/get_acc_uniprot_pairs.py: the main loop that batches   *)
(* accession numbers, spawn_threads / ThreadPoolExecutor, get_info with    *)
(* its retry on a suffix-stripped accession, make_request with its parse   *)
(* of the Uniprot reply, Protein and dump_data.                            *)
(*                                                                         *)
(* Python strings are sequences of one-character strings, so that split,   *)
(* strip and the regular expression of get_info are computed, not assumed. *)
(***************************************************************************)
EXTENDS Naturals, Integers, Sequences, FiniteSets, TLC

(* ---------------------------- bounds ---------------------------------- *)

\* longest input column df["accession"] explored
MaxKeys == 3

\* largest value of --threads explored
MaxWidth == 2

(* ---------------------------- strings --------------------------------- *)

NL == "\n"
TAB == "\t"
SP == " "
DOT == "."

\* the filler string "None" of Protein.__init__, make_request and get_info
NONE == <<"N", "o", "n", "e">>

\* characters removed by str.strip()
Whitespace == {SP, TAB, NL, "\r"}

\* index of the first occurrence of character c in s, 0 when absent
RECURSIVE FirstIndex(_, _, _)
FirstIndex(s, c, i) ==
    IF i > Len(s) THEN 0
    ELSE IF s[i] = c THEN i
    ELSE FirstIndex(s, c, i + 1)

\* index of the last occurrence of character c in s, 0 when absent
RECURSIVE LastIndex(_, _, _)
LastIndex(s, c, i) ==
    IF i = 0 THEN 0
    ELSE IF s[i] = c THEN i
    ELSE LastIndex(s, c, i - 1)

\* str.split(sep) with an explicit separator: always at least one piece
RECURSIVE Split(_, _)
Split(s, sep) ==
    LET i == FirstIndex(s, sep, 1)
    IN  IF i = 0 THEN <<s>>
        ELSE <<SubSeq(s, 1, i - 1)>> \o Split(SubSeq(s, i + 1, Len(s)), sep)

\* str.strip()
RECURSIVE Strip(_)
Strip(s) ==
    IF s = <<>> THEN s
    ELSE IF s[1] \in Whitespace THEN Strip(Tail(s))
    ELSE IF s[Len(s)] \in Whitespace THEN Strip(SubSeq(s, 1, Len(s) - 1))
    ELSE s

(* ---------------------------- inputs ---------------------------------- *)

\* accession numbers that rows of the input can carry: one without a version
\* suffix, one with a version suffix after a dotted name, and the text "None"
NoDotKey == <<"A">>
DottedKey == <<"A", ".", "b", ".", "2">>
KeySet == { NoDotKey, DottedKey, NONE }

\* the None extract_gene_id returns for a description without "//"; no
\* string, so it differs from every sequence of characters
NoKey == <<"<None>">>

\* str(x) for an accession: None prints as "None"
PyStr(x) == IF x = NoKey THEN NONE ELSE x

\* index of the last "//" of s that has a character before it, 0 when absent
RECURSIVE LastSlashes(_, _)
LastSlashes(s, i) ==
    IF i < 2 THEN 0
    ELSE IF i < Len(s) /\ s[i] = "/" /\ s[i + 1] = "/" THEN i
    ELSE LastSlashes(s, i - 1)

\* extract_gene_id: group 1 of re.search("(.+)//", str_), or None
extract_gene_id(str_) ==
    LET i == LastSlashes(str_, Len(str_))
    IN  IF i = 0 THEN NoKey ELSE SubSeq(str_, 1, i - 1)

\* the placeholder fillna puts in empty cells
NA == <<"N", "/", "A">>

\* "Nr Description" cells: three that hold an accession before "//", one
\* without "//", and an empty cell
RowSet ==
    { NoDotKey \o <<"/", "/", "x">>,
      DottedKey \o <<"/", "/", "x">>,
      NONE \o <<"/", "/", "x">>,
      <<"x", "y">>,
      NA }

\* get_cleaned_df: rows without description dropped, accession column added
get_cleaned_df(rows) ==
    LET kept == SelectSeq(rows, LAMBDA r : r # NA)
    IN  [i \in 1..Len(kept) |-> extract_gene_id(kept[i])]

\* the exception requests.get raises when no reply is obtained
ConnectionError == "ConnectionError"

\* reply bodies (r.text) of the Uniprot service
HeaderOnly == <<"h">>
HeaderNewline == <<"h", NL>>
OneField == <<"h", NL, "P">>
Hit == <<"h", NL, "P", TAB, "g", SP, "x">>
HitEmptyName == <<"h", NL, "P", TAB>>
HitBlankName == <<"h", NL, "P", TAB, SP, "x">>
HitOther == <<"h", NL, "Q", TAB, "k">>

Bodies ==
    { HeaderOnly, HeaderNewline, OneField, Hit, HitEmptyName, HitBlankName, HitOther }

\* everything requests.get can do for one request: return a reply with some
\* body, or raise
Replies ==
    { [raises |-> "none", text |-> b] : b \in Bodies }
        \cup { [raises |-> ConnectionError, text |-> <<>>] }

\* the keys and the replies of the two-key example: a hit for "ABC123.1"
\* with name field "geneA extra", a miss for every other query
ABC123_1 == <<"A", "B", "C", "1", "2", "3", ".", "1">>
XYZ999_2 == <<"X", "Y", "Z", "9", "9", "9", ".", "2">>
HitGeneA ==
    <<"h", NL, "P", "1", TAB, "g", "e", "n", "e", "A", SP, "e", "x", "t", "r", "a">>
Service(query) ==
    [ raises |-> "none",
      text |-> IF query = ABC123_1 THEN HitGeneA ELSE HeaderOnly ]

(* ---------------------------- Protein --------------------------------- *)

\* get_status looking at prot_id alone
get_status_IdOnly(prot_id, gene_name) ==
    IF prot_id = NONE THEN FALSE ELSE TRUE

\* Protein.get_status
get_status(prot_id, gene_name) ==
    IF NONE \in {prot_id, gene_name} THEN FALSE ELSE TRUE

\* Protein.__init__ applied to one tuple returned by get_info
Protein(data) ==
    [ gene_id |-> data[1],
      prot_id |-> data[2],
      gene_name |-> data[3],
      complete |-> get_status(data[2], data[3]) ]

(* ---------------------------- make_request ---------------------------- *)

\* the except IndexError branch of make_request
Filler == [exc |-> "none", miss |-> TRUE, u_id |-> NONE, gene_name |-> NONE]

\* the try block keeping the whole name field
ParseBody_WholeName(text) ==
    LET lines == Split(text, NL)
    IN  IF Len(lines) < 2 THEN Filler
        ELSE LET info == Split(lines[2], TAB)
             IN  IF Len(info) < 2 THEN Filler
                 ELSE [ exc |-> "none",
                        miss |-> FALSE,
                        u_id |-> info[1],
                        gene_name |-> IF Strip(info[2]) = <<>> THEN NONE ELSE info[2] ]

\* the try block of make_request on a reply body
ParseBody(text) ==
    LET lines == Split(text, NL)
    IN  IF Len(lines) < 2 THEN Filler
        ELSE LET info == Split(lines[2], TAB)
             IN  IF Len(info) < 2 THEN Filler
                 ELSE LET name == Split(info[2], SP)[1]
                      IN  [ exc |-> "none",
                            miss |-> FALSE,
                            u_id |-> info[1],
                            gene_name |-> IF Strip(name) = <<>> THEN NONE ELSE name ]

\* make_request: only IndexError is caught, any other exception leaves it
make_request(reply) ==
    IF reply.raises # "none"
    THEN [exc |-> reply.raises, miss |-> FALSE, u_id |-> <<>>, gene_name |-> <<>>]
    ELSE ParseBody(reply.text)

(* ---------------------------- get_info -------------------------------- *)

\* the test looking at the identifier alone
NeedsRetry_MissOnly(acc, u_id, gene_name) == u_id = NONE

\* the test that decides on the second query
NeedsRetry(acc, u_id, gene_name) == NONE \in {acc, u_id, gene_name}

\* re.search(r"(.*)\.", acc): TRUE when there is a match
ReMatches(acc) == LastIndex(acc, DOT, Len(acc)) > 0

\* .group(1) of that match: everything before the last "."
ReGroup1(acc) == SubSeq(acc, 1, LastIndex(acc, DOT, Len(acc)) - 1)

\* get_info returning the accession it last queried
ReturnedKey_Queried(acc, mod_acc) == mod_acc

\* the first element of the tuple get_info returns
ReturnedKey(acc, mod_acc) == acc

(* ---------------------------- state ----------------------------------- *)

VARIABLES
    accs,               \* df["accession"], the input keys in row order
    num_theads,         \* args.num_theads
    pc,                 \* position of the main thread
    index,              \* number of keys the for loop has taken from accs
    acc_pool,           \* the pool being filled by the for loop
    proteins,           \* the list of Protein objects
    units,              \* the get_info calls of the executor, in submission order
    nbatch,             \* number of calls of spawn_threads so far
    printed,            \* the indexes printed by the status line
    summary,            \* the counts printed by the last line of the script
    success_out_file,   \* lines written to OUT_PATH
    failure_out_file,   \* lines written to ERR_PATH
    crash               \* the exception that ended the run, or "none"

vars ==
    << accs, num_theads, pc, index, acc_pool, proteins, units, nbatch, printed,
       summary, success_out_file, failure_out_file, crash >>

\* sequences over S of length 0..n
SeqsUpTo(S, n) == UNION { [1..k -> S] : k \in 0..n }

Init ==
    /\ accs \in SeqsUpTo(KeySet, MaxKeys)
    /\ num_theads \in 1..MaxWidth
    /\ pc = "loop"
    /\ index = 0
    /\ acc_pool = <<>>
    /\ proteins = <<>>
    /\ units = <<>>
    /\ nbatch = 0
    /\ printed = <<>>
    /\ summary = <<>>
    /\ success_out_file = <<>>
    /\ failure_out_file = <<>>
    /\ crash = "none"

(* ---------------------------- worker threads -------------------------- *)

\* a get_info call that has returned or raised, or that was cancelled before
\* a pool thread picked it up
Finished(u) == u.pc \in {"done", "raised", "cancelled"}

\* a get_info call blocked in requests.get
InFlight(u) == u.pc \in {"req1", "req2"}

\* positions in units of the calls of batch b
UnitsOf(us, b) == { i \in 1..Len(us) : us[i].batch = b }

\* the acc_pool spawn_threads was called with for batch b
BatchKeys(us, b) ==
    LET sel == SelectSeq(us, LAMBDA u : u.batch = b)
    IN  [i \in 1..Len(sel) |-> sel[i].acc]

\* a pool thread picks up its call and get_info sends the first query
Start(i) ==
    /\ units[i].pc = "pending"
    /\ units' = [units EXCEPT ![i].pc = "req1", ![i].sent = <<units[i].acc>>]
    /\ UNCHANGED << accs, num_theads, pc, index, acc_pool, proteins, nbatch,
                    printed, summary, success_out_file, failure_out_file, crash >>

\* the first make_request returns or raises on reply; get_info goes on to
\* its return or to the second make_request
FirstReplyWith(i, reply) ==
    /\ units[i].pc = "req1"
    /\   LET u == units[i]
             r == make_request(reply)
             seen == [miss |-> r.miss, u_id |-> r.u_id, gene_name |-> r.gene_name]
         IN  units' =
               IF r.exc # "none"
               THEN [units EXCEPT ![i].pc = "raised", ![i].exc = r.exc]
               ELSE IF NeedsRetry(u.acc, r.u_id, r.gene_name)
               THEN IF u.acc = NoKey
                    THEN [units EXCEPT ![i].pc = "raised",
                                       ![i].got = <<seen>>,
                                       ![i].exc = "TypeError"]
                    ELSE IF ReMatches(u.acc)
                    THEN [units EXCEPT ![i].pc = "req2",
                                       ![i].got = <<seen>>,
                                       ![i].sent = Append(u.sent, ReGroup1(u.acc))]
                    ELSE [units EXCEPT ![i].pc = "raised",
                                       ![i].got = <<seen>>,
                                       ![i].exc = "AttributeError"]
               ELSE [units EXCEPT ![i].pc = "done",
                                  ![i].got = <<seen>>,
                                  ![i].result =
                                      <<ReturnedKey(u.acc, u.acc), r.u_id, r.gene_name>>]
    /\ UNCHANGED << accs, num_theads, pc, index, acc_pool, proteins, nbatch,
                    printed, summary, success_out_file, failure_out_file, crash >>

\* the first request is answered in any of the ways requests.get allows
FirstReply(i) == \E reply \in Replies : FirstReplyWith(i, reply)

\* the second make_request returns or raises on reply; get_info returns its
\* outcome
SecondReplyWith(i, reply) ==
    /\ units[i].pc = "req2"
    /\   LET u == units[i]
             r == make_request(reply)
             seen == [miss |-> r.miss, u_id |-> r.u_id, gene_name |-> r.gene_name]
         IN  units' =
               IF r.exc # "none"
               THEN [units EXCEPT ![i].pc = "raised", ![i].exc = r.exc]
               ELSE [units EXCEPT ![i].pc = "done",
                                  ![i].got = Append(u.got, seen),
                                  ![i].result =
                                      <<ReturnedKey(u.acc, u.sent[2]), r.u_id, r.gene_name>>]
    /\ UNCHANGED << accs, num_theads, pc, index, acc_pool, proteins, nbatch,
                    printed, summary, success_out_file, failure_out_file, crash >>

\* the second request is answered in any of the ways requests.get allows
SecondReply(i) == \E reply \in Replies : SecondReplyWith(i, reply)

(* ---------------------------- spawn_threads --------------------------- *)

\* executor.map(get_info, acc_pool): one call per key, in pool order
Submitted(pool, b) ==
    [ i \in 1..Len(pool) |->
        [ batch |-> b, acc |-> pool[i], pc |-> "pending", sent |-> <<>>,
          got |-> <<>>, exc |-> "none", result |-> <<>> ] ]

\* the with block left as soon as the first call of the batch has finished
Joined_FirstDone(us, b) ==
    \E i \in UnitsOf(us, b) :
        /\ Finished(us[i])
        /\ \A j \in UnitsOf(us, b) : i <= j

\* the with block left as soon as every call was picked up by a thread
Joined_Started(us, b) == \A i \in UnitsOf(us, b) : us[i].pc # "pending"

\* leaving the with block: shutdown(wait=True) has joined every pool thread
Joined(us, b) == \A i \in UnitsOf(us, b) : Finished(us[i])

\* the exception list(executor.map(...)) re-raises: that of the first call,
\* in submission order, that raised; "none" when every call returned
Raised(us, b) ==
    LET bad == { i \in UnitsOf(us, b) : us[i].pc = "raised" }
    IN  IF bad = {} THEN "none"
        ELSE us[CHOOSE i \in bad : \A j \in bad : i <= j].exc

\* the results handed back last call first
Results_Reversed(us, b) ==
    LET sel == SelectSeq(us, LAMBDA u : u.batch = b /\ u.pc = "done")
    IN  [i \in 1..Len(sel) |-> sel[Len(sel) + 1 - i].result]

\* the list spawn_threads returns: the results of the calls that returned,
\* in submission order
Results(us, b) ==
    LET sel == SelectSeq(us, LAMBDA u : u.batch = b /\ u.pc = "done")
    IN  [i \in 1..Len(sel) |-> sel[i].result]

\* position of the call whose exception the result iterator of executor.map
\* re-raises: every call submitted before it has returned; 0 when there is none
Reraising(us) ==
    LET bad == { i \in 1..Len(us) :
                   /\ us[i].pc = "raised"
                   /\ \A j \in 1..(i - 1) : us[j].pc = "done" }
    IN  IF bad = {} THEN 0 ELSE CHOOSE i \in bad : TRUE

\* list(executor.map(...)) meets the exception of a call: the result
\* iterator cancels the calls after it that no pool thread has picked up yet
CancelPending ==
    /\ pc \in {"loop_wait", "final_wait"}
    /\ Reraising(units) > 0
    /\ \E i \in 1..Len(units) : i > Reraising(units) /\ units[i].pc = "pending"
    /\ units' = [ i \in 1..Len(units) |->
                    IF i > Reraising(units) /\ units[i].pc = "pending"
                    THEN [units[i] EXCEPT !.pc = "cancelled"]
                    ELSE units[i] ]
    /\ UNCHANGED << accs, num_theads, pc, index, acc_pool, proteins, nbatch,
                    printed, summary, success_out_file, failure_out_file, crash >>

\* the pool threads that outlive the with block: none, every one was joined
Running(us) == SelectSeq(us, LAMBDA u : ~Finished(u))

\* [Protein(*data) for data in spawn_threads(...)]
Proteins(results) == [i \in 1..Len(results) |-> Protein(results[i])]

(* ---------------------------- main ------------------------------------ *)

\* the test of the for loop off by one
PoolHasRoom_Inclusive(pool, width) == Len(pool) <= width

\* the test of the for loop that decides between filling and flushing
PoolHasRoom(pool, width) == Len(pool) < width

\* the pool emptied without the key that found it full
RestartPool_Empty(acc) == <<>>

\* acc_pool = []; acc_pool.append(acc)
RestartPool(acc) == <<acc>>

\* the status line printing the index one too high
StatusLine_OneBased(idx) == idx + 1

\* print(f" {index} "): the number shown by the status line
StatusLine(idx) == idx

\* for loop, if branch: the key joins the pool
LoopAppend ==
    /\ pc = "loop"
    /\ index < Len(accs)
    /\ PoolHasRoom(acc_pool, num_theads)
    /\ acc_pool' = Append(acc_pool, accs[index + 1])
    /\ index' = index + 1
    /\ UNCHANGED << accs, num_theads, pc, proteins, units, nbatch, printed,
                    summary, success_out_file, failure_out_file, crash >>

\* for loop, else branch: spawn_threads is entered with the full pool
LoopSpawn ==
    /\ pc = "loop"
    /\ index < Len(accs)
    /\ ~PoolHasRoom(acc_pool, num_theads)
    /\ units' = units \o Submitted(acc_pool, nbatch + 1)
    /\ nbatch' = nbatch + 1
    /\ pc' = "loop_wait"
    /\ UNCHANGED << accs, num_theads, index, acc_pool, proteins, printed,
                    summary, success_out_file, failure_out_file, crash >>

\* for loop, else branch: spawn_threads returns or raises; on return the
\* Proteins are appended, the pool restarts with the key and the index is
\* printed
LoopJoin ==
    /\ pc = "loop_wait"
    /\ Joined(units, nbatch)
    /\ units' = Running(units)
    /\ IF Raised(units, nbatch) # "none"
       THEN /\ pc' = "crashed"
            /\ crash' = Raised(units, nbatch)
            /\ UNCHANGED << proteins, acc_pool, printed, index >>
       ELSE /\ proteins' = proteins \o Proteins(Results(units, nbatch))
            /\ acc_pool' = RestartPool(accs[index + 1])
            /\ printed' = Append(printed, StatusLine(index))
            /\ index' = index + 1
            /\ pc' = "loop"
            /\ UNCHANGED crash
    /\ UNCHANGED << accs, num_theads, nbatch, summary, success_out_file,
                    failure_out_file >>

\* after the loop: spawn_threads is entered with what is left in the pool;
\* ThreadPoolExecutor(max_workers=0) raises ValueError
FinalSpawn ==
    /\ pc = "loop"
    /\ index = Len(accs)
    /\ IF Len(acc_pool) = 0
       THEN /\ pc' = "crashed"
            /\ crash' = "ValueError"
            /\ UNCHANGED << units, nbatch >>
       ELSE /\ units' = units \o Submitted(acc_pool, nbatch + 1)
            /\ nbatch' = nbatch + 1
            /\ pc' = "final_wait"
            /\ UNCHANGED crash
    /\ UNCHANGED << accs, num_theads, index, acc_pool, proteins, printed,
                    summary, success_out_file, failure_out_file >>

\* after the loop: spawn_threads returns or raises
FinalJoin ==
    /\ pc = "final_wait"
    /\ Joined(units, nbatch)
    /\ units' = Running(units)
    /\ IF Raised(units, nbatch) # "none"
       THEN /\ pc' = "crashed"
            /\ crash' = Raised(units, nbatch)
            /\ UNCHANGED proteins
       ELSE /\ proteins' = proteins \o Proteins(Results(units, nbatch))
            /\ pc' = "dump"
            /\ UNCHANGED crash
    /\ UNCHANGED << accs, num_theads, index, acc_pool, nbatch, printed,
                    summary, success_out_file, failure_out_file >>

(* ---------------------------- dump_data ------------------------------- *)

\* Protein.__str__
Str(prot) ==
    PyStr(prot.gene_id) \o <<",">> \o prot.prot_id \o <<",">> \o prot.gene_name \o <<NL>>

\* dump_data writing every line to the success file
Routed_All(prots, flag) ==
    IF flag THEN [i \in 1..Len(prots) |-> Str(prots[i])] ELSE <<>>

\* the lines dump_data routes to the file chosen by flag
Routed(prots, flag) ==
    LET sel == SelectSeq(prots, LAMBDA p : p.complete = flag)
    IN  [i \in 1..Len(sel) |-> Str(sel[i])]

\* dump_data: both files are written, or opening one of them raises
\* PermissionError and nothing is written; then the script prints how many
\* Proteins are complete, of how many rows, and ends
DumpData ==
    /\ pc = "dump"
    /\ \E writable \in BOOLEAN :
         IF writable
         THEN /\ success_out_file' = Routed(proteins, TRUE)
              /\ failure_out_file' = Routed(proteins, FALSE)
         ELSE UNCHANGED << success_out_file, failure_out_file >>
    /\ summary' = <<Len(SelectSeq(proteins, LAMBDA p : p.complete)), Len(accs)>>
    /\ pc' = "done"
    /\ UNCHANGED << accs, num_theads, index, acc_pool, proteins, units, nbatch,
                    printed, crash >>

(* ---------------------------- specification --------------------------- *)

Next ==
    \/ LoopAppend
    \/ LoopSpawn
    \/ LoopJoin
    \/ FinalSpawn
    \/ FinalJoin
    \/ DumpData
    \/ CancelPending
    \/ \E i \in 1..Len(units) : Start(i)
    \/ \E i \in 1..Len(units) : FirstReply(i)
    \/ \E i \in 1..Len(units) : SecondReply(i)

Spec == Init /\ [][Next]_vars

\* the script run on a sheet of rows, cleaned by get_cleaned_df
InitRows ==
    /\ \E rows \in SeqsUpTo(RowSet, MaxKeys) : accs = get_cleaned_df(rows)
    /\ num_theads \in 1..MaxWidth
    /\ pc = "loop"
    /\ index = 0
    /\ acc_pool = <<>>
    /\ proteins = <<>>
    /\ units = <<>>
    /\ nbatch = 0
    /\ printed = <<>>
    /\ summary = <<>>
    /\ success_out_file = <<>>
    /\ failure_out_file = <<>>
    /\ crash = "none"

SpecRows == InitRows /\ [][Next]_vars

\* the script run on the keys of the two-key example against the service
\* of that example
InitE2E ==
    /\ accs \in SeqsUpTo({ABC123_1, XYZ999_2}, MaxKeys)
    /\ num_theads \in 1..MaxWidth
    /\ pc = "loop"
    /\ index = 0
    /\ acc_pool = <<>>
    /\ proteins = <<>>
    /\ units = <<>>
    /\ nbatch = 0
    /\ printed = <<>>
    /\ summary = <<>>
    /\ success_out_file = <<>>
    /\ failure_out_file = <<>>
    /\ crash = "none"

\* a request answered by the service of the example
FirstAnswer(i) ==
    /\ units[i].pc = "req1"
    /\ FirstReplyWith(i, Service(units[i].sent[1]))

SecondAnswer(i) ==
    /\ units[i].pc = "req2"
    /\ SecondReplyWith(i, Service(units[i].sent[2]))

NextE2E ==
    \/ LoopAppend
    \/ LoopSpawn
    \/ LoopJoin
    \/ FinalSpawn
    \/ FinalJoin
    \/ DumpData
    \/ \E i \in 1..Len(units) : Start(i)
    \/ \E i \in 1..Len(units) : FirstAnswer(i)
    \/ \E i \in 1..Len(units) : SecondAnswer(i)

SpecE2E == InitE2E /\ [][NextE2E]_vars

\* every worker and the main thread keep being scheduled and every request
\* is answered
FairSpec == Spec /\ WF_vars(Next)

\* the ResultSet: proteins split by the completeness flag
resolved == SelectSeq(proteins, LAMBDA p : p.complete)
unresolved == SelectSeq(proteins, LAMBDA p : ~p.complete)

TypeOK ==
    /\ pc \in {"loop", "loop_wait", "final_wait", "dump", "done", "crashed"}
    /\ index \in 0..Len(accs)
    /\ Len(acc_pool) <= num_theads

(* ---------------------------- vocabulary of the properties ------------ *)

\* the run is over: the script reached its last line or died of an exception
RunEnded == pc \in {"done", "crashed"}

\* the main thread is inside spawn_threads
InSpawn == pc \in {"loop_wait", "final_wait"}

\* number of occurrences of key k in a sequence of keys
Count(keys, k) == Cardinality({ i \in 1..Len(keys) : keys[i] = k })

\* the keys of a list of Proteins
KeysOf(prots) == [i \in 1..Len(prots) |-> prots[i].gene_id]

\* a key with a "." somewhere
HasDot(acc) == \E i \in 1..Len(acc) : acc[i] = DOT

\* p is acc cut at its last ".": acc = p . rest, rest without "."
IsCutAtLastDot(p, acc) ==
    /\ Len(p) < Len(acc)
    /\ SubSeq(acc, 1, Len(p)) = p
    /\ acc[Len(p) + 1] = DOT
    /\ \A i \in (Len(p) + 2)..Len(acc) : acc[i] # DOT

\* positions of the calls blocked in a request
InFlightSet == { i \in 1..Len(units) : InFlight(units[i]) }

\* smaller of two numbers
Min(a, b) == IF a < b THEN a ELSE b

\* the b-th consecutive chunk of width keys of the input
Chunk(b) ==
    SubSeq(accs, (b - 1) * num_theads + 1, Min(b * num_theads, Len(accs)))

\* the calls of the batch being joined, in submission order
Current == SelectSeq(units, LAMBDA u : u.batch = nbatch)

\* the last outcome make_request gave call u
LastOutcome(u) == u.got[Len(u.got)]

\* number of Proteins a step appends
Appended == Len(proteins') - Len(proteins)

(* ---------------------------- C1 -------------------------------------- *)

\* C1: when a run on a non-empty input is over, resolved and unresolved hold
\* together as many Records as there are input keys, and every key has as
\* many Records as it has occurrences in the input.
C1_EveryKeyAccounted ==
    (RunEnded /\ accs # <<>>) =>
        /\ Len(resolved) + Len(unresolved) = Len(accs)
        /\ \A k \in KeySet : Count(KeysOf(proteins), k) = Count(accs, k)

(* ---------------------------- C2 -------------------------------------- *)

\* C2: no run is ended by an exception that a get_info call raised for its
\* key; whatever the lookups of a key do, the run goes on.
C2_NoAbortOnKeyFailure ==
    crash \notin {"AttributeError", ConnectionError}

(* ---------------------------- C3 -------------------------------------- *)

\* C3: a request that fails in transport makes make_request return the filler
\* values; no get_info call is ever ended by the transport exception.
C3_TransportFailureIsMiss ==
    \A i \in 1..Len(units) : units[i].exc # ConnectionError

(* ---------------------------- C4 -------------------------------------- *)

\* C4: on an empty input the run does not fail, submits no get_info call
\* (hence sends no request) and holds no Record.
C4_EmptyInputReturnsEmpty ==
    accs = <<>> =>
        /\ pc # "crashed"
        /\ units = <<>>
        /\ proteins = <<>>

(* ---------------------------- C5 -------------------------------------- *)

\* C5: at most num_theads requests are in flight, the calls in flight all
\* belong to the batch spawn_threads is waiting for, and none is in flight
\* while the main thread is outside spawn_threads.
C5_BoundedInFlight ==
    /\ Cardinality(InFlightSet) <= num_theads
    /\ \A i \in InFlightSet : units[i].batch = nbatch
    /\ InFlightSet # {} => InSpawn

\* a full pool of two calls in flight, one of them in its second request,
\* with a further batch still to come
C5_Witness ==
    /\ num_theads = 2
    /\ Len(accs) = 3
    /\ Cardinality(InFlightSet) = 2
    /\ \E i \in InFlightSet : units[i].pc = "req2"

(* ---------------------------- C6 -------------------------------------- *)

\* C6: the pool handed to the b-th call of spawn_threads is the b-th
\* consecutive chunk of num_theads input keys; inside the loop it has
\* num_theads keys, after the loop it has ((n-1) mod num_theads)+1 keys and
\* is chunk number ((n-1) div num_theads)+1, and when the run gets past the
\* last call the chunks handed out cover the whole input.
C6_ConsecutiveChunks ==
    /\ InSpawn =>
          /\ nbatch >= 1
          /\ BatchKeys(units, nbatch) = Chunk(nbatch)
          /\ Len(units) \in 1..num_theads
    /\ pc = "loop_wait" => Len(units) = num_theads
    /\ pc = "final_wait" =>
          /\ Len(units) = ((Len(accs) - 1) % num_theads) + 1
          /\ nbatch = ((Len(accs) - 1) \div num_theads) + 1
    /\ pc \in {"dump", "done"} =>
          /\ (nbatch - 1) * num_theads < Len(accs)
          /\ Len(accs) <= nbatch * num_theads

\* three keys, width two: the second call gets the one remaining key
C6_Witness ==
    /\ pc = "final_wait"
    /\ num_theads = 2
    /\ Len(accs) = 3
    /\ nbatch = 2
    /\ BatchKeys(units, nbatch) = <<accs[3]>>
    /\ KeysOf(proteins) = <<accs[1], accs[2]>>

(* ---------------------------- C7 -------------------------------------- *)

\* C7: a call for a key without "." whose first request was a miss has sent
\* a second request, for that same key.
C7_NoDotRetriesSameKey ==
    \A i \in 1..Len(units) :
        LET u == units[i]
        IN  (~HasDot(u.acc) /\ Len(u.got) >= 1 /\ u.got[1].miss) =>
                /\ Len(u.sent) = 2
                /\ u.sent[2] = u.acc
                /\ u.exc # "AttributeError"

(* ---------------------------- C8 -------------------------------------- *)

\* C8: a call whose first request was a miss has sent exactly one more
\* request, for the key cut at its last "."; no call sends a third request;
\* a call that returns after two requests returns the second outcome, and a
\* second miss gives filler values.
C8_OneRetryOnMiss ==
    \A i \in 1..Len(units) :
        LET u == units[i]
        IN  /\ Len(u.sent) <= 2
            /\ (Len(u.got) >= 1 /\ u.got[1].miss) =>
                    /\ Len(u.sent) = 2
                    /\ IsCutAtLastDot(u.sent[2], u.acc)
            /\ (u.pc = "done" /\ Len(u.got) = 2) =>
                    /\ u.result[2] = u.got[2].u_id
                    /\ u.result[3] = u.got[2].gene_name
                    /\ u.got[2].miss => ~Protein(u.result).complete

(* ---------------------------- C9 -------------------------------------- *)

\* C9: every Record appended to proteins carries the key its get_info call
\* was submitted with, in submission order, also when the call went through
\* the second request.
C9_RecordCarriesOriginalKey ==
    [][ \A k \in 1..Appended :
            proteins'[Len(proteins) + k].gene_id = Current[k].acc ]_vars

\* a Record for the dotted key whose fields can only come from the second
\* request (an identifier with a filler name after the first one forces it)
C9_Witness ==
    \E i \in 1..Len(proteins) :
        /\ proteins[i].gene_id = DottedKey
        /\ proteins[i].prot_id = <<"P">>
        /\ proteins[i].gene_name = NONE

(* ---------------------------- C10 ------------------------------------- *)

\* C10 as stated: every Record appended for a call whose last outcome was
\* parsed from a data line (an identifier and a name, the name possibly the
\* filler put for an empty one) is complete, and every Record appended for a
\* call whose last outcome was a miss is incomplete.
C10_ResolvedAlwaysComplete ==
    [][ \A k \in 1..Appended :
            LET o == LastOutcome(Current[k])
                p == proteins'[Len(proteins) + k]
            IN  /\ o.miss => ~p.complete
                /\ ~o.miss => p.complete ]_vars

\* C10 amended: the Record appended for a call is complete exactly when the
\* call's last outcome was parsed from a data line and neither its
\* identifier nor its name is the filler; a miss, and a parsed outcome whose
\* empty name was replaced by the filler, give an incomplete Record.
C10_CompleteIffNoFiller ==
    [][ \A k \in 1..Appended :
            LET o == LastOutcome(Current[k])
                p == proteins'[Len(proteins) + k]
            IN  /\ p.prot_id = o.u_id
                /\ p.gene_name = o.gene_name
                /\ p.complete <=>
                       (~o.miss /\ o.u_id # NONE /\ o.gene_name # NONE) ]_vars

\* the three kinds of Record side by side: complete, parsed with a filler
\* name, and missed
C10_Witness ==
    /\ \E i \in 1..Len(proteins) :
          proteins[i].complete /\ proteins[i].gene_name = <<"g">>
    /\ \E i \in 1..Len(proteins) :
          /\ ~proteins[i].complete
          /\ proteins[i].prot_id = <<"P">>
          /\ proteins[i].gene_name = NONE
    /\ \E i \in 1..Len(proteins) :
          ~proteins[i].complete /\ proteins[i].prot_id = NONE

(* ---------------------------- C11 ------------------------------------- *)

\* a Record as Protein builds it
Rec(k, e, n, c) == [gene_id |-> k, prot_id |-> e, gene_name |-> n, complete |-> c]

\* the Records of the example
RecABC == Rec(ABC123_1, <<"P", "1">>, <<"g", "e", "n", "e", "A">>, TRUE)
RecXYZ == Rec(XYZ999_2, NONE, NONE, FALSE)

\* C11: against the service of the example no run on its keys fails, and once
\* the last batch is appended every "ABC123.1" has the Record
\* ("ABC123.1","P1","geneA"), the first token of "geneA extra", and every
\* "XYZ999.2" the Record ("XYZ999.2","None","None"); for the input
\* ["ABC123.1","XYZ999.2"] resolved and unresolved hold one Record each, and
\* the files, when written, hold their lines.
C11_EndToEnd ==
    /\ accs # <<>> => pc # "crashed"
    /\ pc \in {"dump", "done"} =>
          proteins = [i \in 1..Len(accs) |->
                         IF accs[i] = ABC123_1 THEN RecABC ELSE RecXYZ]
    /\ (pc = "done" /\ accs = <<ABC123_1, XYZ999_2>>) =>
          /\ resolved = <<RecABC>>
          /\ unresolved = <<RecXYZ>>
          /\ success_out_file \in
                { <<>>,
                  << ABC123_1 \o <<",", "P", "1", ",", "g", "e", "n", "e", "A", NL>> >> }
          /\ failure_out_file \in
                { <<>>, << XYZ999_2 \o <<",">> \o NONE \o <<",">> \o NONE \o <<NL>> >> }

\* the example run to its end with both files written
C11_Witness ==
    /\ pc = "done"
    /\ accs = <<ABC123_1, XYZ999_2>>
    /\ success_out_file # <<>>
    /\ failure_out_file # <<>>

(* ---------------------------- C12 ------------------------------------- *)

\* C12: while spawn_threads runs for batch b, proteins holds exactly the
\* Records of the batches before b, in input order, and the executor holds
\* calls of batch b only; outside spawn_threads, before the run dies, the
\* Records of every batch dispatched so far are appended.
C12_BatchAppendedBeforeNext ==
    /\ \A i \in 1..Len(units) : units[i].batch = nbatch
    /\ InSpawn =>
          /\ Len(proteins) = (nbatch - 1) * num_theads
          /\ KeysOf(proteins) = SubSeq(accs, 1, (nbatch - 1) * num_theads)
    /\ pc \in {"loop", "dump", "done"} =>
          Len(proteins) = Min(nbatch * num_theads, Len(accs))

\* the second batch in flight with the two Records of the first appended
C12_Witness ==
    /\ pc = "final_wait"
    /\ nbatch = 2
    /\ Len(proteins) = 2
    /\ InFlightSet # {}

(* ---------------------------- C13 ------------------------------------- *)

\* C13: proteins changes only in a step of the main thread that leaves
\* spawn_threads, and only when every call of the executor has finished and
\* none is in a request; steps of the worker threads leave it unchanged.
C13_AppendOnlyAfterJoin ==
    [][ proteins' # proteins =>
            /\ InSpawn
            /\ pc' # pc
            /\ \A i \in 1..Len(units) : Finished(units[i])
            /\ \A i \in 1..Len(units') : ~InFlight(units'[i]) ]_vars

\* two Records appended by the main thread after a batch of two workers
C13_Witness ==
    /\ num_theads = 2
    /\ pc = "loop"
    /\ Len(proteins) = 2
    /\ units = <<>>

(* ---------------------------- C14 ------------------------------------- *)

\* C14: when spawn_threads is left, every call of the batch has sent its
\* first request and has returned or raised; none was cancelled or skipped.
C14_NoUnitCancelled ==
    [][ (InSpawn /\ pc' # pc) =>
            \A i \in 1..Len(units) :
                /\ units[i].pc \in {"done", "raised"}
                /\ Len(units[i].sent) >= 1 ]_vars

(* ---------------------------- C15 ------------------------------------- *)

\* both fields of a Record differ from the filler
NoFiller(p) == p.prot_id # NONE /\ p.gene_name # NONE

\* C15: the flag of every Record says that neither field is the filler, so
\* resolved and unresolved split proteins; and when dump_data has written,
\* the success file holds the lines of the Records without filler and the
\* error file the lines of the others, each Record in one file.
C15_PartitionByCompleteness ==
    /\ \A i \in 1..Len(proteins) : proteins[i].complete <=> NoFiller(proteins[i])
    /\ Len(resolved) + Len(unresolved) = Len(proteins)
    /\ (pc = "done" /\ (success_out_file # <<>> \/ failure_out_file # <<>>)) =>
          LET good == SelectSeq(proteins, NoFiller)
              bad == SelectSeq(proteins, LAMBDA p : ~NoFiller(p))
          IN  /\ success_out_file = [i \in 1..Len(good) |-> Str(good[i])]
              /\ failure_out_file = [i \in 1..Len(bad) |-> Str(bad[i])]
              /\ Len(success_out_file) + Len(failure_out_file) = Len(proteins)

\* a run whose files both received lines
C15_Witness ==
    /\ pc = "done"
    /\ success_out_file # <<>>
    /\ failure_out_file # <<>>
    /\ Len(proteins) = 3

(* ---------------------------- C16 ------------------------------------- *)

\* C16 as stated: once the last batch is appended, one checkpoint has been
\* printed per batch, the last batch included, each showing the number of
\* keys processed up to its batch.
C16_CheckpointAfterEveryBatch ==
    pc \in {"dump", "done"} =>
        /\ Len(printed) = nbatch
        /\ \A b \in 1..Len(printed) :
              printed[b] = Min(b * num_theads, Len(accs))

\* C16 amended: a checkpoint is printed after every batch completed inside
\* the loop and after none other: back in the loop there is one per batch,
\* the latest equal to the number of Records appended, elsewhere one per
\* batch before the current or last one; the b-th shows b * num_theads, the
\* number of keys processed; the last batch gets no checkpoint, only the
\* closing summary of complete Records and rows.
C16_CheckpointAfterLoopBatches ==
    /\ \A b \in 1..Len(printed) : printed[b] = b * num_theads
    /\ pc = "loop" =>
          /\ Len(printed) = nbatch
          /\ nbatch >= 1 => printed[nbatch] = Len(proteins)
    /\ (pc # "loop" /\ nbatch >= 1) => Len(printed) = nbatch - 1
    /\ pc = "done" => summary = <<Len(resolved), Len(accs)>>
    /\ pc # "done" => summary = <<>>

\* three keys, width two, run to its end: one checkpoint, showing 2, for
\* two batches
C16_Witness ==
    /\ pc = "done"
    /\ nbatch = 2
    /\ printed = <<2>>
    /\ summary[2] = 3

(* ---------------------------- C17 ------------------------------------- *)

\* C17: every key in the pool and every key a get_info call was submitted
\* with is a non-empty string, never the None of extract_gene_id.
C17_NoKeylessRowReachesGetInfo ==
    /\ \A i \in 1..Len(acc_pool) : acc_pool[i] \notin {NoKey, <<>>}
    /\ \A i \in 1..Len(units) : units[i].acc \notin {NoKey, <<>>}

(* ---------------------------- C18 ------------------------------------- *)

\* the filler is the key of call u or a field of its first outcome
FillerSeen(u) == NONE \in {u.acc, u.got[1].u_id, u.got[1].gene_name}

C19_RecordsInInputOrder ==
    /\ Len(proteins) <= Len(accs)
    /\ \A i \in 1..Len(proteins) : proteins[i].gene_id = accs[i]
    /\ pc \in {"dump", "done"} => KeysOf(proteins) = accs

\* a completed run over three keys, neighbours different, the first two in
\* one batch of two concurrent calls
C19_Witness ==
    /\ pc = "done"
    /\ num_theads = 2
    /\ Len(proteins) = 3
    /\ accs[1] # accs[2]
    /\ accs[2] # accs[3]

(* ---------------------------- C20 ------------------------------------- *)

\* C20: with every thread scheduled and every request answered, the run
\* reaches its end with every batch dispatched and dump_data called, and
\* from then on no call is submitted and no Record appended.
C20_EventuallyFinalized ==
    /\ <>(pc = "done" /\ nbatch * num_theads >= Len(accs))
    /\ [][pc = "done" => UNCHANGED << units, proteins >>]_vars

====
